---- MODULE Spec2Model ----
(***************************************************************************)
(* Model of pvttoscr4.py: UBXParser, a relay that reads UBX frames from a  *)
(* serial port, decodes four NAV messages, forwards them and synthesizes   *)
(* a NAV-SOL frame (class 0x01, id 0x06) after every NAV-VELECEF.          *)
(*                                                                         *)
(* Bytes are integers 0..255 and byte strings are sequences of them.  A    *)
(* 32-bit integer n is kept as the pair <<hi, lo>> with n = hi*65536 + lo, *)
(* 0 <= lo < 65536; hi is 0..65535 for an unsigned and -32768..32767 for a *)
(* signed value, so that no value leaves the range of the checker's        *)
(* integers and signed/unsigned conversions stay observable.               *)
(***************************************************************************)
EXTENDS Integers, Sequences, FiniteSets, TLC

\* ------------------------------------------------------------------ bounds
\* longest garbage prefix put before a frame
MaxGarbage == 5
\* longest payload of the frames of the codec specification
MaxPayload == 2

\* ------------------------------------------------------------- state
VARIABLES
  scen,       \* the input of this run (garbage, frames, corruption), fixed during the run
  wire,       \* bytes the receiver has sent that ser.read has not returned yet
  buffer,     \* read_messages' local byte buffer
  pvt, posecef, velecef, timeutc,   \* the four slots of UBXParser
  written,    \* every message handed to ser.write, in order, with the call site
  pc,         \* "read": at ser.read; "scan": in the inner while loop; "closed": the
              \* port is closed and read_messages has returned normally; "raised":
              \* read_messages was left by an exception (no handler re-raises, so
              \* no action leads here)
  error,      \* the exception read_messages caught, "" when none
  discarded,  \* number of bytes dropped from buffer that belonged to no extracted frame
  extracted   \* the checksum-valid frames found so far, <<class, id, payload>> each

vars == <<scen, wire, buffer, pvt, posecef, velecef, timeutc, written, pc, error,
          discarded, extracted>>

\* ------------------------------------------------------- python primitives
None == [none |-> TRUE]

\* buffer[a:b] and buffer[a:] (0-based, end exclusive)
Slice(s, a, b) == IF b <= a THEN <<>> ELSE SubSeq(s, a + 1, IF b > Len(s) THEN Len(s) ELSE b)
SliceFrom(s, a) == Slice(s, a, Len(s))

\* bytes.find(sub): lowest 0-based index of the two-byte string sub, or -1
find(s, sub) ==
  LET hits == {i \in 1..(Len(s) - 1) : s[i] = sub[1] /\ s[i + 1] = sub[2]}
  IN  IF hits = {} THEN -1
      ELSE (CHOOSE i \in hits : \A j \in hits : i <= j) - 1

\* struct: size of one format character ('<' = little-endian, no padding)
FmtSize(c) == CASE c \in {"B", "b", "x"} -> 1
                [] c \in {"H", "h"} -> 2
                [] c \in {"I", "i"} -> 4

\* struct.unpack of one item at 0-based offset o
UnpackItem(c, s, o) ==
  CASE c = "B" -> s[o + 1]
    [] c = "b" -> IF s[o + 1] >= 128 THEN s[o + 1] - 256 ELSE s[o + 1]
    [] c = "H" -> s[o + 1] + 256 * s[o + 2]
    [] c = "h" -> LET u == s[o + 1] + 256 * s[o + 2] IN IF u >= 32768 THEN u - 65536 ELSE u
    [] c = "I" -> <<s[o + 3] + 256 * s[o + 4], s[o + 1] + 256 * s[o + 2]>>
    [] c = "i" -> LET h == s[o + 3] + 256 * s[o + 4]
                  IN  <<IF h >= 32768 THEN h - 65536 ELSE h, s[o + 1] + 256 * s[o + 2]>>

\* struct.unpack_from(fmt, s, o): the values of the non-pad items, in order
RECURSIVE unpack_from(_, _, _)
unpack_from(fmt, s, o) ==
  IF fmt = <<>> THEN <<>>
  ELSE LET c == Head(fmt)
           rest == unpack_from(Tail(fmt), s, o + FmtSize(c))
       IN  IF c = "x" THEN rest ELSE <<UnpackItem(c, s, o)>> \o rest

\* struct.pack range check of one item (struct.error when FALSE)
PackFits(c, v) ==
  CASE c = "B" -> v >= 0 /\ v <= 255
    [] c = "b" -> v >= -128 /\ v <= 127
    [] c = "H" -> v >= 0 /\ v <= 65535
    [] c = "h" -> v >= -32768 /\ v <= 32767
    [] c = "I" -> v[1] >= 0 /\ v[1] <= 65535
    [] c = "i" -> v[1] >= -32768 /\ v[1] <= 32767

Lo(n) == n % 256
Hi(n) == (n \div 256) % 256

\* struct.pack of one item that fits
PackItem(c, v) ==
  CASE c = "B" -> <<v>>
    [] c = "b" -> <<(v + 256) % 256>>
    [] c = "H" -> <<Lo(v), Hi(v)>>
    [] c = "h" -> <<Lo((v + 65536) % 65536), Hi((v + 65536) % 65536)>>
    [] c = "I" -> <<Lo(v[2]), Hi(v[2]), Lo(v[1]), Hi(v[1])>>
    [] c = "i" -> <<Lo(v[2]), Hi(v[2]), Lo((v[1] + 65536) % 65536), Hi((v[1] + 65536) % 65536)>>

RECURSIVE PackAll(_, _)
PackAll(fmt, vals) ==
  IF fmt = <<>> THEN <<>>
  ELSE PackItem(Head(fmt), Head(vals)) \o PackAll(Tail(fmt), Tail(vals))

\* struct.pack(fmt, *vals): the bytes, or struct.error when a value is out of range
StructError == [raised |-> "struct.error"]
pack(fmt, vals) ==
  IF \A k \in 1..Len(fmt) : PackFits(fmt[k], vals[k])
  THEN [raised |-> "", bytes |-> PackAll(fmt, vals)]
  ELSE StructError

\* x & (1 << k) != 0 for a python int x in -128..255 (two's complement)
BitAnd(x, k) == (((x + 256) % 256) \div (2 ^ k)) % 2 = 1

\* ------------------------------------------------------------ checksum
UBX_HEADER == <<181, 98>>

\* one turn of the loop: CK_A = (CK_A + byte) & 0xFF; CK_B = (CK_B + CK_A) & 0xFF
ChecksumStep(ck, byte) ==
  <<(ck[1] + byte) % 256, (ck[2] + ((ck[1] + byte) % 256)) % 256>>

\* the loop over data[lo..hi] in order, starting from ck.  The range is split in
\* halves and the right half is folded from the value reached at the end of the
\* left half (bound as a value, so that it is computed once); the bytes are
\* still folded first to last.
RECURSIVE ChecksumLoop(_, _, _, _)
ChecksumLoop(data, lo, hi, ck) ==
  IF lo > hi THEN ck
  ELSE IF lo = hi THEN ChecksumStep(ck, data[lo])
  ELSE CHOOSE right \in {ChecksumLoop(data, ((lo + hi) \div 2) + 1, hi, left) :
                           left \in {ChecksumLoop(data, lo, (lo + hi) \div 2, ck)}} : TRUE

calc_checksum(data) ==
  CHOOSE ck \in {ChecksumLoop(d, 1, Len(d), <<0, 0>>) : d \in {data}} : TRUE

\* bytes([msg_class, msg_id]) + struct.pack('<H', len(payload)) + payload
ChecksumData(msg_class, msg_id, payload) ==
  <<msg_class, msg_id>> \o PackItem("H", Len(payload)) \o payload

\* faulty variant: the checksum taken over the payload alone
verify_checksum_payload_only(msg_class, msg_id, payload) == calc_checksum(payload)

verify_checksum(msg_class, msg_id, payload) ==
  calc_checksum(ChecksumData(msg_class, msg_id, payload))

\* the message send_ubx_message hands to ser.write
send_ubx_message(msg_class, msg_id, payload) ==
  LET data == ChecksumData(msg_class, msg_id, payload)
  IN  UBX_HEADER \o data \o calc_checksum(data)

\* ------------------------------------------------------------ decoders
\* '<I H B B B B B B I i b b B B i i i i I i i i i i I I I H 6x i h H'
PVT_FORMAT ==
  <<"I", "H", "B", "B", "B", "B", "B", "B", "I", "i", "b", "b", "B", "B",
    "i", "i", "i", "i", "I", "i", "i", "i", "i", "i", "I", "I", "I", "H",
    "x", "x", "x", "x", "x", "x", "i", "h", "H">>

parse_ubx_nav_pvt(payload) ==
  IF Len(payload) < 92 THEN None
  ELSE LET values == unpack_from(PVT_FORMAT, payload, 0)
       IN  [iTOW |-> values[1],
            datetime |-> [year |-> values[2], month |-> values[3], day |-> values[4],
                          hour |-> values[5], minute |-> values[6], second |-> values[7],
                          valid |-> values[8], tAcc |-> values[9], nano |-> values[10]],
            position |-> [lat |-> values[16], lon |-> values[15], height |-> values[17],
                          hMSL |-> values[18], hAcc |-> values[19], vAcc |-> values[20]],
            velocity |-> [velN |-> values[21], velE |-> values[22], velD |-> values[23],
                          gSpeed |-> values[24], headMot |-> values[25],
                          sAcc |-> values[26], headAcc |-> values[27]],
            navigation |-> [fixType |-> values[11], flags |-> values[12],
                            flags2 |-> values[13], numSV |-> values[14],
                            pDOP |-> values[28], headVeh |-> values[29],
                            magDec |-> values[30], magAcc |-> values[31]]]

\* '<I i i i I'
ECEF_FORMAT == <<"I", "i", "i", "i", "I">>

parse_ubx_nav_posecef(payload) ==
  IF Len(payload) < 20 THEN None
  ELSE LET values == unpack_from(ECEF_FORMAT, payload, 0)
       IN  [iTOW |-> values[1],
            position |-> [ecefX |-> values[2], ecefY |-> values[3], ecefZ |-> values[4]],
            accuracy |-> [pAcc |-> values[5]]]

\* faulty variant: no length check, the missing bytes of a short payload read as zero
parse_ubx_nav_velecef_padded(payload) ==
  LET values == unpack_from(ECEF_FORMAT, payload \o [i \in 1..20 |-> 0], 0)
  IN  [iTOW |-> values[1],
       velocity |-> [ecefVX |-> values[2], ecefVY |-> values[3], ecefVZ |-> values[4]],
       accuracy |-> [sAcc |-> values[5]]]

parse_ubx_nav_velecef(payload) ==
  IF Len(payload) < 20 THEN None
  ELSE LET values == unpack_from(ECEF_FORMAT, payload, 0)
       IN  [iTOW |-> values[1],
            velocity |-> [ecefVX |-> values[2], ecefVY |-> values[3], ecefVZ |-> values[4]],
            accuracy |-> [sAcc |-> values[5]]]

\* '<I I i H B B B B B B'
TIMEUTC_FORMAT == <<"I", "I", "i", "H", "B", "B", "B", "B", "B", "B">>

parse_ubx_nav_timeutc(payload) ==
  IF Len(payload) < 20 THEN None
  ELSE LET values == unpack_from(TIMEUTC_FORMAT, payload, 0)
       IN  [iTOW |-> values[1], tAcc |-> values[2], nano |-> values[3],
            datetime |-> [year |-> values[4], month |-> values[5], day |-> values[6],
                          hour |-> values[7], minute |-> values[8], second |-> values[9]],
            valid |-> values[10]]

\* --------------------------------------------------------- synthesizer
\* '<I i h B B i i i I i i i I H B B I'
SOL_FORMAT ==
  <<"I", "i", "h", "B", "B", "i", "i", "i", "I", "i", "i", "i", "I", "H", "B", "B", "I">>

\* week = 2035
\* faulty variant: the week derived from the date of the NAV-TIMEUTC slot
WeekFromUtc == IF timeutc = None THEN 2035 ELSE 2035 + timeutc.datetime.month

\* week = 2035
GPS_WEEK == 2035

Zero32 == <<0, 0>>

\* faulty variant: the PVT flags byte copied as it is
SolFlagsCopied(flags_pvt, valid_pvt) == (flags_pvt + 256) % 256

\* flags_sol computed from the PVT flags and valid fields
SolFlags(flags_pvt, valid_pvt) ==
    (IF BitAnd(flags_pvt, 0) THEN 1 ELSE 0)
  + (IF BitAnd(valid_pvt, 1) THEN 4 + 8 ELSE 0)
  + (IF BitAnd(flags_pvt, 1) THEN 2 ELSE 0)

\* create_ubx_nav_sol on the slots (p, pe, ve): None, the packed payload, or
\* StructError when struct.pack rejects a value
create_ubx_nav_sol(p, pe, ve) ==
  IF p = None \/ ve = None THEN None
  ELSE LET iTOW == p.iTOW
           fTOW == p.datetime.nano
           week == GPS_WEEK
           gpsFix == p.navigation.fixType
           flags_sol == SolFlags(p.navigation.flags, p.datetime.valid)
           ecefX == IF pe # None THEN pe.position.ecefX ELSE Zero32
           ecefY == IF pe # None THEN pe.position.ecefY ELSE Zero32
           ecefZ == IF pe # None THEN pe.position.ecefZ ELSE Zero32
           pAcc == IF pe # None THEN pe.accuracy.pAcc ELSE Zero32
           ecefVX == ve.velocity.ecefVX
           ecefVY == ve.velocity.ecefVY
           ecefVZ == ve.velocity.ecefVZ
           sAcc == ve.accuracy.sAcc
           pDOP == p.navigation.pDOP
           numSV == p.navigation.numSV
       IN  pack(SOL_FORMAT,
                <<iTOW, fTOW, week, gpsFix, flags_sol, ecefX, ecefY, ecefZ, pAcc,
                  ecefVX, ecefVY, ecefVZ, sAcc, pDOP, 0, numSV, Zero32>>)

\* ------------------------------------------------ inputs (the receiver)
SeqsUpTo(S, n) == UNION {[1..k -> S] : k \in 0..n}

Filled(n, b) == [i \in 1..n |-> b]

\* s with the bytes bs written at 0-based offset at
Patch(s, at, bs) ==
  [i \in 1..Len(s) |-> IF i > at /\ i <= at + Len(bs) THEN bs[i - at] ELSE s[i]]

\* a 92-byte NAV-PVT payload: iTOW@0, valid@11, nano@16, fixType@20, flags@21,
\* numSV@23, pDOP@76, every other byte zero
PvtPayload(itow, valid, nano, fixType, flags, numSV, pDOP) ==
  Patch(Patch(Patch(Patch(Patch(Patch(Patch(Filled(92, 0),
    0, itow), 11, <<valid>>), 16, nano), 20, <<fixType>>), 21, <<flags>>),
    23, <<numSV>>), 76, pDOP)

PvtPayloads ==
  { PvtPayload(<<16, 39, 0, 0>>, 2, <<255, 255, 255, 255>>, 3, 3, 9, <<150, 0>>),
    PvtPayload(<<0, 0, 0, 255>>, 0, <<1, 0, 0, 128>>, 0, 130, 255, <<255, 255>>),
    PvtPayload(<<16, 39, 0, 0>>, 7, <<0, 202, 154, 59>>, 128, 1, 12, <<99, 0>>) }

\* a 20-byte NAV-POSECEF / NAV-VELECEF payload: iTOW, three int32, one uint32
EcefPayload(itow, x, y, z, acc) == itow \o x \o y \o z \o acc

PosPayloads ==
  { EcefPayload(<<16, 39, 0, 0>>, <<1, 2, 3, 4>>, <<255, 255, 255, 255>>,
                <<0, 0, 0, 128>>, <<5, 0, 0, 255>>),
    EcefPayload(<<17, 39, 0, 0>>, <<0, 0, 0, 0>>, <<9, 8, 7, 6>>,
                <<181, 98, 0, 0>>, <<0, 1, 0, 0>>) }

VelPayloads ==
  { EcefPayload(<<16, 39, 0, 0>>, <<254, 255, 255, 255>>, <<10, 0, 0, 0>>,
                <<0, 0, 0, 128>>, <<0, 0, 0, 240>>),
    EcefPayload(<<0, 0, 0, 255>>, <<7, 0, 0, 0>>, <<0, 0, 0, 0>>,
                <<255, 255, 255, 127>>, <<3, 0, 0, 0>>) }

TimePayloads ==
  { <<16, 39, 0, 0>> \o <<20, 0, 0, 0>> \o <<255, 255, 255, 255>> \o <<234, 7>>
      \o <<11, 3, 10, 17, 59, 7>>,
    <<0, 0, 0, 255>> \o <<1, 0, 0, 0>> \o <<0, 0, 0, 128>> \o <<208, 7>>
      \o <<2, 29, 23, 59, 60, 255>> }

\* the frames <<class, id, payload>> a kind of input stands for
Variants(kind) ==
  CASE kind = "PVT" -> {<<1, 7, p>> : p \in PvtPayloads}
    [] kind = "POS" -> {<<1, 1, p>> : p \in PosPayloads}
    [] kind = "VEL" -> {<<1, 17, p>> : p \in VelPayloads}
    [] kind = "TIME" -> {<<1, 33, p>> : p \in TimePayloads}
    [] kind = "PVTshort" -> {<<1, 7, Filled(91, 3)>>}
    [] kind = "VELshort" -> {<<1, 17, Filled(19, 1)>>}
    [] kind = "POSshort" -> {<<1, 1, Filled(19, 2)>>}
    [] kind = "TIMEshort" -> {<<1, 33, Filled(19, 4)>>}
    [] kind = "OTHER" -> {<<1, 2, <<>>>>, <<1, 6, <<7>>>>}
    [] kind = "NONNAV" -> {<<2, 17, p>> : p \in VelPayloads}

NavKinds ==
  { <<"POS", "PVT", "VEL">>, <<"PVT", "VEL">>, <<"VEL">>, <<"VEL", "PVT", "VEL">>,
    <<"TIME", "PVT", "VEL">>, <<"PVT", "VELshort">>, <<"PVTshort", "VEL">>,
    <<"OTHER">>, <<"NONNAV">>,
    <<"POS", "POS", "PVT", "VEL">>, <<"PVT", "PVT">>, <<"TIME", "TIME">>,
    <<"POS", "POSshort", "OTHER">>, <<"TIME", "TIMEshort", "OTHER">>,
    <<"PVT", "PVTshort", "VEL">>, <<"VEL", "VELshort", "OTHER">> }

\* every choice of one variant per kind
FramesOf(kinds) ==
  {fs \in [1..Len(kinds) -> UNION {Variants(kinds[k]) : k \in 1..Len(kinds)}] :
     \A k \in 1..Len(kinds) : fs[k] \in Variants(kinds[k])}

GarbageBytes == {0, 98, 181}
NoiseFrames == {<<1, 2, <<>>>>, <<2, 21, <<181>>>>}

CorruptBases == {<<1, 2, <<17, 34>>>>}
CorruptTails == {<<>>, <<1, 2, <<>>>>}
CorruptBytes == {0, 1, 2, 98, 127, 128, 181, 255}

CodecBytes == {0, 1, 98, 181, 255}
CodecPayloads ==
  SeqsUpTo(CodecBytes, MaxPayload) \cup {Filled(255, 181), Filled(256, 98), Filled(257, 1)}

RECURSIVE Concat(_)
Concat(ss) == IF ss = <<>> THEN <<>> ELSE Head(ss) \o Concat(Tail(ss))

Encoded(f) == send_ubx_message(f[1], f[2], f[3])

\* the byte stream of a scenario: the garbage, then the frames as the receiver
\* encodes them, with byte `at` (0-based) of the frames replaced when at >= 0
\* (`before` is the number of messages the sink received from an earlier run of
\* the program, 0 when there was none)
Stream(s) ==
  LET fr == Concat([k \in 1..Len(s.frames) |-> Encoded(s.frames[k])])
  IN  s.garbage \o (IF s.at >= 0 THEN Patch(fr, s.at, <<s.byte>>) ELSE fr)

NoiseScenarios ==
  {[family |-> "noise", garbage |-> g, frames |-> <<f>>, at |-> -1, byte |-> 0,
    before |-> 0] :
     g \in SeqsUpTo(GarbageBytes, MaxGarbage), f \in NoiseFrames}

CorruptScenarios ==
  {s \in [family : {"corrupt"}, garbage : {<<>>},
          frames : {IF t = <<>> THEN <<f>> ELSE <<f, t>> : f \in CorruptBases, t \in CorruptTails},
          at : 0..9, byte : CorruptBytes, before : {0}] :
     /\ s.at < Len(Encoded(s.frames[1]))
     /\ s.byte # Encoded(s.frames[1])[s.at + 1]}

NavScenarios ==
  UNION {
    {[family |-> "nav", garbage |-> <<>>, frames |-> fs, at |-> -1, byte |-> 0,
      before |-> 0] :
       fs \in FramesOf(kinds)} : kinds \in NavKinds}

\* a false header (marker, class, id, a declared length that reaches beyond the
\* next frame) followed by two valid frames
StallLengths == {3, 10, 16}
StallScenarios ==
  {[family |-> "stall", garbage |-> <<181, 98, 1, 2, n, 0>>, frames |-> <<<<1, 2, <<>>>>, f>>,
    at |-> -1, byte |-> 0, before |-> 0] :
     n \in StallLengths, f \in {<<1, 3, <<>>>>, <<2, 21, <<181>>>>}}

\* inputs that are given to the program twice, the second time with other
\* payloads of the same lengths in the NAV-TIMEUTC frames
TwinKinds ==
  { <<"TIME", "PVT", "VEL">>, <<"PVT", "TIME", "VEL">>, <<"PVT", "TIMEshort", "VEL">> }

TwinScenarios ==
  UNION {
    {[family |-> "twin", garbage |-> <<>>, frames |-> fs, at |-> -1, byte |-> 0,
      before |-> 0] :
       fs \in FramesOf(kinds)} : kinds \in TwinKinds}

\* the frames with every byte of every NAV-TIMEUTC payload replaced by its complement
Retimed(frames) ==
  [k \in 1..Len(frames) |->
     IF frames[k][1] = 1 /\ frames[k][2] = 33
     THEN <<1, 33, [i \in 1..Len(frames[k][3]) |-> 255 - frames[k][3][i]]>>
     ELSE frames[k]]

CodecScenarios ==
  {[family |-> "codec", garbage |-> <<>>, frames |-> <<<<c, i, p>>>>, at |-> -1, byte |-> 0,
    before |-> 0] :
     c \in CodecBytes, i \in CodecBytes, p \in CodecPayloads}

\* ---------------------------------------------------------- dispatch
\* faulty variant: a slot is written once and then kept
KeepFirst(old, data) == IF old # None THEN old ELSE data

\* faulty variant: a record with a lower iTOW than the stored one is rejected
KeepNewest(old, data) ==
  IF old # None /\ (data.iTOW[1] < old.iTOW[1]
                    \/ (data.iTOW[1] = old.iTOW[1] /\ data.iTOW[2] < old.iTOW[2]))
  THEN old ELSE data

\* self.pvt = pvt_data (and the like): the slot's value after the assignment
StoreSlot(old, data) == data

\* faulty variant: frames of every class are taken for navigation frames
AnyClass(msg_class) == TRUE

\* msg_class == 0x01, the test of the last branch of the chain
IsNavClass(msg_class) == msg_class = 1

\* faulty variant: the payload written without header, length and checksum
ForwardRaw(msg_class, msg_id, payload) == [msg |-> payload, by |-> "forward"]

Forward(msg_class, msg_id, payload) ==
  [msg |-> send_ubx_message(msg_class, msg_id, payload), by |-> "forward"]

\* the if/elif chain run on a checksum-valid frame: the new slots, the messages
\* written and the exception raised, if any
Dispatch(msg_class, msg_id, payload) ==
  LET same == [pvt |-> pvt, posecef |-> posecef, velecef |-> velecef,
               timeutc |-> timeutc, out |-> <<>>, raised |-> ""]
      fwd == <<Forward(msg_class, msg_id, payload)>>
  IN  IF msg_class = 1 /\ msg_id = 7 THEN
        LET pvt_data == parse_ubx_nav_pvt(payload)
        IN  IF pvt_data # None
            THEN [same EXCEPT !.pvt = StoreSlot(pvt, pvt_data), !.out = fwd]
            ELSE same
      ELSE IF msg_class = 1 /\ msg_id = 1 THEN
        LET posecef_data == parse_ubx_nav_posecef(payload)
        IN  IF posecef_data # None
            THEN [same EXCEPT !.posecef = StoreSlot(posecef, posecef_data), !.out = fwd]
            ELSE same
      ELSE IF msg_class = 1 /\ msg_id = 17 THEN
        LET velecef_data == parse_ubx_nav_velecef(payload)
        IN  IF velecef_data # None
            THEN LET stored == StoreSlot(velecef, velecef_data)
                     sol_payload == create_ubx_nav_sol(pvt, posecef, stored)
                 IN  IF sol_payload = StructError
                     THEN [same EXCEPT !.velecef = stored, !.out = fwd,
                                       !.raised = "struct.error"]
                     ELSE IF sol_payload # None
                     THEN [same EXCEPT !.velecef = stored,
                             !.out = fwd \o <<[msg |-> send_ubx_message(1, 6, sol_payload.bytes),
                                               by |-> "sol"]>>]
                     ELSE [same EXCEPT !.velecef = stored, !.out = fwd]
            ELSE same
      ELSE IF msg_class = 1 /\ msg_id = 33 THEN
        LET timeutc_data == parse_ubx_nav_timeutc(payload)
        IN  IF timeutc_data # None
            THEN [same EXCEPT !.timeutc = StoreSlot(timeutc, timeutc_data), !.out = fwd]
            ELSE same
      ELSE IF IsNavClass(msg_class) THEN [same EXCEPT !.out = fwd]
      ELSE same

\* faulty variant: resynchronization that skips the two marker bytes
SkipMarker(buf) == SliceFrom(buf, 2)

\* faulty variant: resynchronization that skips the whole suspect message
SkipSuspect(buf) == SliceFrom(buf, 6 + (buf[5] + 256 * buf[6]) + 2)

\* faulty variant: resynchronization that drops everything buffered
SkipAll(buf) == <<>>

\* buffer = buffer[1:] after a checksum mismatch
SkipByte(buf) == SliceFrom(buf, 1)

\* faulty variant: the bytes before the header are kept
KeepGarbage(buf, header_pos) == buf

\* buffer = buffer[header_pos:] when garbage precedes the header
DropGarbage(buf, header_pos) == IF header_pos > 0 THEN SliceFrom(buf, header_pos) ELSE buf

\* faulty variant: the processed message is left in the buffer
KeepMessage(buf, length) == buf

\* buffer = buffer[6+length+2:] after a processed message
DropMessage(buf, length) == SliceFrom(buf, 6 + length + 2)

\* ------------------------------------------------------------ actions
\* data = self.ser.read(self.ser.in_waiting or 1); buffer += data
\* (an empty read changes nothing and is a stuttering step)
Read ==
  /\ pc = "read"
  /\ \E n \in 1..Len(wire) :
       /\ buffer' = buffer \o SubSeq(wire, 1, n)
       /\ wire' = SubSeq(wire, n + 1, Len(wire))
  /\ pc' = "scan"
  /\ UNCHANGED <<scen, pvt, posecef, velecef, timeutc, written, error, discarded, extracted>>

\* one evaluation of `while len(buffer) >= 6` and, when it holds, one pass of its body
ExtractPass ==
  /\ pc = "scan"
  /\ UNCHANGED <<scen, wire>>
  /\ IF Len(buffer) < 6
     THEN /\ pc' = "read"
          /\ UNCHANGED <<buffer, pvt, posecef, velecef, timeutc, written, error,
                         discarded, extracted>>
     ELSE
     LET header_pos == find(buffer, UBX_HEADER) IN
     IF header_pos = -1
     THEN /\ buffer' = <<>>
          /\ pc' = "read"
          /\ discarded' = discarded + Len(buffer)
          /\ UNCHANGED <<pvt, posecef, velecef, timeutc, written, error, extracted>>
     ELSE
     LET buf == DropGarbage(buffer, header_pos) IN
     IF Len(buf) < 6
     THEN /\ buffer' = buf
          /\ pc' = "read"
          /\ discarded' = discarded + header_pos
          /\ UNCHANGED <<pvt, posecef, velecef, timeutc, written, error, extracted>>
     ELSE
     LET hdr == unpack_from(<<"B", "B", "H">>, buf, 2)
         msg_class == hdr[1]
         msg_id == hdr[2]
         length == hdr[3]
     IN
     IF Len(buf) >= length + 8
     THEN LET payload == Slice(buf, 6, 6 + length)
              crc == Slice(buf, 6 + length, 6 + length + 2)
          IN  IF crc = verify_checksum(msg_class, msg_id, payload)
              THEN LET r == Dispatch(msg_class, msg_id, payload)
                   IN  /\ pvt' = r.pvt
                       /\ posecef' = r.posecef
                       /\ velecef' = r.velecef
                       /\ timeutc' = r.timeutc
                       /\ written' = written \o r.out
                       /\ extracted' = Append(extracted, <<msg_class, msg_id, payload>>)
                       /\ discarded' = discarded + header_pos
                       /\ IF r.raised # ""
                          THEN /\ error' = r.raised
                               /\ pc' = "closed"
                               /\ buffer' = buf
                          ELSE /\ error' = error
                               /\ pc' = "scan"
                               /\ buffer' = DropMessage(buf, length)
              ELSE /\ buffer' = SkipByte(buf)
                   /\ pc' = "scan"
                   /\ discarded' = discarded + header_pos + 1
                   /\ UNCHANGED <<pvt, posecef, velecef, timeutc, written, error, extracted>>
     ELSE /\ buffer' = buf
          /\ pc' = "read"
          /\ discarded' = discarded + header_pos
          /\ UNCHANGED <<pvt, posecef, velecef, timeutc, written, error, extracted>>

\* ser.read raises (serial.SerialException): caught by `except Exception`, port closed
ReadFault ==
  /\ pc = "read"
  /\ pc' = "closed"
  /\ error' = "SerialException"
  /\ UNCHANGED <<scen, wire, buffer, pvt, posecef, velecef, timeutc, written,
                 discarded, extracted>>

\* Ctrl-C while blocked in ser.read: caught by `except KeyboardInterrupt`, port closed
Interrupt ==
  /\ pc = "read"
  /\ pc' = "closed"
  /\ error' = "KeyboardInterrupt"
  /\ UNCHANGED <<scen, wire, buffer, pvt, posecef, velecef, timeutc, written,
                 discarded, extracted>>

\* the encoder's output looped back into the parser's buffer (codec runs only)
Loopback ==
  /\ pc = "encode"
  /\ buffer' = Encoded(scen.frames[1])
  /\ pc' = "scan"
  /\ UNCHANGED <<scen, wire, pvt, posecef, velecef, timeutc, written, error,
                 discarded, extracted>>

\* main() once more, after a run that took in its whole input: a new UBXParser
\* (empty slots, empty buffer) reads the same stream but for the payloads of its
\* NAV-TIMEUTC frames, and writes to the same sink
Restart ==
  /\ scen.family = "twin"
  /\ \/ wire = <<>> /\ pc = "read"
     \/ pc = "closed" /\ error = "struct.error"
  /\ LET again == [scen EXCEPT !.family = "rerun", !.frames = Retimed(scen.frames),
                                !.before = Len(written)]
     IN  /\ scen' = again
         /\ wire' = Stream(again)
  /\ buffer' = <<>>
  /\ pvt' = None
  /\ posecef' = None
  /\ velecef' = None
  /\ timeutc' = None
  /\ pc' = "read"
  /\ error' = ""
  /\ discarded' = 0
  /\ extracted' = <<>>
  /\ UNCHANGED written

\* ------------------------------------------------------ specifications
\* __init__ and the start of read_messages, with the input s pending on the line
Start(s, at) ==
  /\ scen = s
  /\ wire = IF at = "read" THEN Stream(s) ELSE <<>>
  /\ buffer = <<>>
  /\ pvt = None
  /\ posecef = None
  /\ velecef = None
  /\ timeutc = None
  /\ written = <<>>
  /\ pc = at
  /\ error = ""
  /\ discarded = 0
  /\ extracted = <<>>

Init ==
  \E s \in NoiseScenarios \cup CorruptScenarios \cup NavScenarios \cup StallScenarios
            \cup TwinScenarios :
    Start(s, "read")

Next == Read \/ ExtractPass \/ ReadFault \/ Interrupt \/ Restart

Spec == Init /\ [][Next]_vars

\* the driver on a false header, with a source that keeps yielding bytes and
\* never fails: the loop `while True` goes on reading and scanning
InitStall == \E s \in StallScenarios : Start(s, "read")

NextStall == Read \/ ExtractPass

SpecStall == InitStall /\ [][NextStall]_vars /\ WF_vars(Read) /\ WF_vars(ExtractPass)

\* the round trip encoder -> parser on its own
InitCodec == \E s \in CodecScenarios : Start(s, "encode")

NextCodec == Loopback \/ ExtractPass

SpecCodec == InitCodec /\ [][NextCodec]_vars

\* ---- the synthesizer on its own: any flags byte and validity byte of NAV-PVT
\* a NAV-PVT payload with the given valid (offset 11) and flags (offset 21) bytes
\* (iTOW 10000, fixType 3, numSV 9, pDOP 150, every other byte zero)
FlagsPayload(f, v) ==
  <<16, 39, 0, 0>> \o Filled(7, 0) \o <<v>> \o Filled(8, 0) \o <<3, f, 0, 9>>
    \o Filled(52, 0) \o <<150, 0>> \o Filled(14, 0)

SynthVel == EcefPayload(<<16, 39, 0, 0>>, <<7, 0, 0, 0>>, <<0, 0, 0, 0>>,
                        <<1, 0, 0, 0>>, <<3, 0, 0, 0>>)

\* the slots after a NAV-PVT frame with flags f and valid v and a NAV-VELECEF
\* frame were decoded, at the call of create_ubx_nav_sol
InitSynth ==
  \E f \in 0..255, v \in 0..255 :
    /\ scen = [family |-> "synth", garbage |-> <<>>,
               frames |-> <<>>, at |-> -1, byte |-> 0, before |-> 0]
    /\ wire = <<>>
    /\ buffer = <<>>
    /\ pvt = parse_ubx_nav_pvt(FlagsPayload(f, v))
    /\ posecef = None
    /\ velecef = parse_ubx_nav_velecef(SynthVel)
    /\ timeutc = None
    /\ written = <<>>
    /\ pc = "synth"
    /\ error = ""
    /\ discarded = 0
    /\ extracted = <<<<1, 7, FlagsPayload(f, v)>>, <<1, 17, SynthVel>>>>

\* sol_payload = self.create_ubx_nav_sol(); if sol_payload: self.send_ubx_message(...)
Synthesize ==
  /\ pc = "synth"
  /\ LET sol_payload == create_ubx_nav_sol(pvt, posecef, velecef)
     IN  IF sol_payload = StructError
         THEN /\ error' = "struct.error"
              /\ pc' = "closed"
              /\ written' = written
         ELSE /\ error' = error
              /\ pc' = "scan"
              /\ written' = IF sol_payload # None
                            THEN Append(written, [msg |-> send_ubx_message(1, 6, sol_payload.bytes),
                                                  by |-> "sol"])
                            ELSE written
  /\ UNCHANGED <<scen, wire, buffer, pvt, posecef, velecef, timeutc, discarded, extracted>>

NextSynth == Synthesize

SpecSynth == InitSynth /\ [][NextSynth]_vars

\* ------------------------------------------------- reading the observables
\* fields of a written message, read off its bytes
MsgClass(m) == m[3]
MsgId(m) == m[4]
MsgPayload(m) == Slice(m, 6, Len(m) - 2)

\* the messages written by the step under consideration
NewWrites == SubSeq(written', Len(written) + 1, Len(written'))

\* the step under consideration found a checksum-valid frame; that frame
FrameStep == Len(extracted') = Len(extracted) + 1
NewFrame == extracted'[Len(extracted')]

\* the step under consideration decoded a NAV-VELECEF frame
VelDecodedStep ==
  /\ FrameStep
  /\ NewFrame[1] = 1 /\ NewFrame[2] = 17 /\ Len(NewFrame[3]) >= 20

\* the driver has nothing left to do with the input: everything was read and the
\* loop is back at ser.read, or the loop ended without an external fault
ExternalFaults == {"SerialException", "KeyboardInterrupt"}
Settled ==
  \/ wire = <<>> /\ pc = "read"
  \/ pc = "closed" /\ error \notin ExternalFaults

\* ------------------------------------------------------------------ C1
\* C1: a garbage prefix without the sync marker followed by one valid frame,
\* split across reads in any way: once all bytes are in and the loop is idle the
\* driver has extracted exactly that frame and discarded exactly the garbage.
C1_GarbageThenFrame ==
  (/\ scen.family = "noise"
   /\ find(scen.garbage, UBX_HEADER) = -1
   /\ Settled)
  => (extracted = <<scen.frames[1]>> /\ discarded = Len(scen.garbage))

\* ------------------------------------------------------------------ C2
\* C2: every checksum-valid frame of class 0x01 that is extracted, whatever its
\* id and payload length, makes the driver write exactly one message with the
\* same class, id and payload.
C2_EveryNavFrameForwarded ==
  [][(FrameStep /\ NewFrame[1] = 1)
     => Cardinality({k \in 1..Len(NewWrites) :
                       /\ MsgClass(NewWrites[k].msg) = NewFrame[1]
                       /\ MsgId(NewWrites[k].msg) = NewFrame[2]
                       /\ MsgPayload(NewWrites[k].msg) = NewFrame[3]}) = 1]_vars

\* ------------------------------------------------------------------ C3
\* C3: nothing in the received bytes ends the driver; the loop ends only on a
\* fault of the byte source or sink or on an external interrupt.
C3_OnlyFaultsEndTheLoop == pc = "closed" => error \in ExternalFaults

\* ------------------------------------------------------------------ C4
\* C4: a synthesized solution frame (class 0x01, id 0x06) is written only as the
\* very next write after the forward of a decoded NAV-VELECEF frame, and it is
\* written then exactly when the PVT slot is populated; with no PVT record the
\* NAV-VELECEF frame yields its forward only, and no error.
IsSolWrite(w) == w.by = "sol" /\ MsgClass(w.msg) = 1 /\ MsgId(w.msg) = 6

SolutionGatedStep ==
  /\ \A k \in 1..Len(NewWrites) :
        NewWrites[k].by = "sol"
        => /\ IsSolWrite(NewWrites[k])
           /\ VelDecodedStep
           /\ k = 2
           /\ NewWrites[1] = Forward(NewFrame[1], NewFrame[2], NewFrame[3])
  /\ VelDecodedStep
     => /\ Len(NewWrites) >= 1
        /\ NewWrites[1] = Forward(NewFrame[1], NewFrame[2], NewFrame[3])
        /\ (pvt # None) <=> (Len(NewWrites) = 2 /\ IsSolWrite(NewWrites[2]))
        /\ (pvt = None) => (Len(NewWrites) = 1 /\ error' = "" /\ pc' # "closed")

C4_SolutionOnlyAfterVelecef == [][SolutionGatedStep]_vars

\* ------------------------------------------------------------------ C5
\* C5: a valid NAV-POSECEF, then a valid NAV-PVT, then a valid NAV-VELECEF frame,
\* from empty slots and under any split: the driver writes exactly four frames,
\* the three forwards in order and one solution frame (id 0x06) whose position
\* fields are the NAV-POSECEF values and whose velocity fields the NAV-VELECEF values.
IsEndToEnd ==
  /\ scen.family = "nav"
  /\ Len(scen.frames) = 3
  /\ scen.frames[1][1] = 1 /\ scen.frames[1][2] = 1 /\ Len(scen.frames[1][3]) >= 20
  /\ scen.frames[2][1] = 1 /\ scen.frames[2][2] = 7 /\ Len(scen.frames[2][3]) >= 92
  /\ scen.frames[3][1] = 1 /\ scen.frames[3][2] = 17 /\ Len(scen.frames[3][3]) >= 20

FourFramesWritten ==
  /\ Len(written) = 4
  /\ \A k \in 1..3 :
       /\ MsgClass(written[k].msg) = 1
       /\ MsgId(written[k].msg) = scen.frames[k][2]
       /\ MsgPayload(written[k].msg) = scen.frames[k][3]
  /\ MsgClass(written[4].msg) = 1
  /\ MsgId(written[4].msg) = 6
  /\ Slice(MsgPayload(written[4].msg), 12, 28) = Slice(scen.frames[1][3], 4, 20)
  /\ Slice(MsgPayload(written[4].msg), 28, 44) = Slice(scen.frames[3][3], 4, 20)

C5_EndToEnd == (IsEndToEnd /\ Settled) => FourFramesWritten

\* ------------------------------------------------------------------ C6
\* the frame of a corrupt scenario as it arrives, one byte changed
CorruptedFrame == SubSeq(Stream(scen), 1, Len(Encoded(scen.frames[1])))

\* the corrupted frame lies complete at the head of the buffer, about to be scanned
CorruptedFrameBuffered ==
  /\ scen.family = "corrupt"
  /\ pc = "scan"
  /\ Len(buffer) >= Len(CorruptedFrame)
  /\ SubSeq(buffer, 1, Len(CorruptedFrame)) = CorruptedFrame

CheckedPositions(n) == {2, 3} \cup 6..(n - 1)

DeclaredLength(b) == b[5] + 256 * b[6]

ChecksumMismatchAtHead ==
  /\ pc = "scan"
  /\ Len(buffer) >= 6
  /\ buffer[1] = 181 /\ buffer[2] = 98
  /\ Len(buffer) >= DeclaredLength(buffer) + 8
  /\ <<buffer[DeclaredLength(buffer) + 7], buffer[DeclaredLength(buffer) + 8]>>
       # calc_checksum(SubSeq(buffer, 3, DeclaredLength(buffer) + 6))

\* C7: on a checksum mismatch at the head of the buffer the driver removes exactly
\* the first byte, keeps every other byte, writes nothing and changes no slot.
C7_MismatchDropsFirstByteOnly ==
  [][ChecksumMismatchAtHead
     => /\ buffer' = Tail(buffer)
        /\ written' = written
        /\ <<pvt', posecef', velecef', timeutc'>> = <<pvt, posecef, velecef, timeutc>>]_vars

\* reached: a frame with a changed checksum byte, followed by a valid frame, was
\* buffered whole and the scan has removed its first byte and nothing else
C7_Witness ==
  /\ scen.family = "corrupt"
  /\ scen.at = 9
  /\ Len(scen.frames) = 2
  /\ buffer = Tail(Stream(scen))
  /\ written = <<>>
  /\ pvt = None /\ posecef = None /\ velecef = None /\ timeutc = None

\* ------------------------------------------------------------------ C8
\* C8: every pass of the extraction loop either removes at least one byte from
\* the buffer or leaves the loop, so the loop ends after at most len(buffer) + 1
\* passes.
C8_PassShrinksOrStops ==
  [][pc = "scan" => (pc' # "scan" \/ Len(buffer') < Len(buffer))]_vars

\* reached: the loop has dropped bytes, then found a frame, and is about to test
\* its condition again
C8_Witness ==
  /\ pc = "scan"
  /\ discarded >= 2
  /\ Len(extracted) >= 1

\* ------------------------------------------------------------------ C9
\* the buffer holds a frame of payload p as the wire format lays it out: marker,
\* class, id, little-endian length, payload, and the checksum of bytes 3..len+6
WellFormedFrame(b, c, i, p) ==
  /\ Len(b) = Len(p) + 8
  /\ b[1] = 181 /\ b[2] = 98
  /\ b[3] = c /\ b[4] = i
  /\ b[5] = Len(p) % 256 /\ b[6] = Len(p) \div 256
  /\ SubSeq(b, 7, Len(p) + 6) = p
  /\ <<b[Len(p) + 7], b[Len(p) + 8]>> = calc_checksum(SubSeq(b, 3, Len(p) + 6))

\* C9 (codec runs): the frame send_ubx_message builds for any class, id and
\* payload carries the checksum the parser recomputes, and the parser extracts
\* from it the same class, id and payload, consuming exactly len(payload) + 8
\* bytes and discarding none.
C9_RoundTrip ==
  pc # "encode"
  => IF extracted = <<>>
     THEN /\ pc = "scan"
          /\ WellFormedFrame(buffer, scen.frames[1][1], scen.frames[1][2], scen.frames[1][3])
     ELSE /\ extracted = <<scen.frames[1]>>
          /\ buffer = <<>>
          /\ discarded = 0

\* reached: a frame whose length needs both length bytes went through the round trip
C9_Witness ==
  /\ scen.family = "codec"
  /\ Len(scen.frames[1][3]) = 256
  /\ pc = "read"
  /\ extracted = <<scen.frames[1]>>
  /\ buffer = <<>>

\* ----------------------------------------------------------------- C10
\* payload of the NAV-PVT frame the PVT slot was decoded from
LastPvtPayload ==
  LET ks == {k \in 1..Len(extracted) :
               extracted[k][1] = 1 /\ extracted[k][2] = 7 /\ Len(extracted[k][3]) >= 92}
  IN  extracted[CHOOSE k \in ks : \A j \in ks : j <= k][3]

\* P is a solution payload whose PVT-derived fields repeat the bytes of the
\* NAV-PVT payload pp: iTOW@0, fTOW@4 (nano@16), week@8 = 2035, gpsFix@10
\* (fixType@20), pDOP@44 (@76), reserved1@46 = 0, numSV@47 (@23), reserved2@48 = 0
SolutionRepeatsPvt(P, pp) ==
  /\ Len(P) = 52
  /\ Slice(P, 0, 4) = Slice(pp, 0, 4)
  /\ Slice(P, 4, 8) = Slice(pp, 16, 20)
  /\ Slice(P, 8, 10) = <<243, 7>>
  /\ P[11] = pp[21]
  /\ Slice(P, 44, 46) = Slice(pp, 76, 78)
  /\ P[47] = 0
  /\ P[48] = pp[24]
  /\ Slice(P, 48, 52) = <<0, 0, 0, 0>>

SolutionPayloadStep ==
  (VelDecodedStep /\ pvt # None)
  => /\ Len(NewWrites) = 2
     /\ NewWrites[2].by = "sol"
     /\ SolutionRepeatsPvt(MsgPayload(NewWrites[2].msg), LastPvtPayload)

\* C10: for every decoded PVT record and NAV-VELECEF record, whatever the bytes
\* of their payloads, synthesis yields a 52-byte payload with gpsFix equal to the
\* PVT fix-type byte, iTOW, fTOW, numSV and pDOP equal to the PVT values,
\* week 2035 and both reserved fields zero.
C10_SolutionFromAnyPvt == [][SolutionPayloadStep]_vars

\* ----------------------------------------------------------------- C11
\* bit k of byte x
Bit(x, k) == (x \div (2 ^ k)) % 2

\* the flags byte (offset 11) of the solution payload last written, and the
\* flags (offset 21) and valid (offset 11) bytes of the NAV-PVT payload decoded
SolFlagsByte == MsgPayload(written[Len(written)].msg)[12]
PvtFlagsByte == LastPvtPayload[22]
PvtValidByte == LastPvtPayload[12]

\* C11 (synthesizer runs): for every PVT flags byte f and validity byte v the
\* solution flags byte has bit 0 = bit 0 of f, bit 1 = bit 1 of f, bits 2 and 3
\* both = bit 1 of v, and bits 4..7 zero; f = 3 with v = 2 gives 15.
C11_SolutionFlags ==
  (scen.family = "synth" /\ written # <<>>)
  => /\ Bit(SolFlagsByte, 0) = Bit(PvtFlagsByte, 0)
     /\ Bit(SolFlagsByte, 1) = Bit(PvtFlagsByte, 1)
     /\ Bit(SolFlagsByte, 2) = Bit(PvtValidByte, 1)
     /\ Bit(SolFlagsByte, 3) = Bit(PvtValidByte, 1)
     /\ SolFlagsByte < 16
     /\ (PvtFlagsByte = 3 /\ PvtValidByte = 2) => SolFlagsByte = 15

\* reached: a solution was synthesized from flags 0xFF (negative once decoded)
\* and valid 0xFD, and carries flags 0b0011
C11_Witness ==
  /\ scen.family = "synth"
  /\ written # <<>>
  /\ PvtFlagsByte = 255 /\ PvtValidByte = 253
  /\ SolFlagsByte = 3

\* ----------------------------------------------------------------- C12
\* positions in `extracted` of the frames of class 1 and the given id that were
\* decoded (payload of min bytes or more), and the payload of the last of them
DecodedOf(id, min) ==
  {k \in 1..Len(extracted) :
     extracted[k][1] = 1 /\ extracted[k][2] = id /\ Len(extracted[k][3]) >= min}

LastDecoded(id, min) ==
  extracted[CHOOSE k \in DecodedOf(id, min) : \A j \in DecodedOf(id, min) : j <= k][3]

\* a step that writes a solution carries in it (offsets 12..27) the 16 value
\* bytes of the last NAV-POSECEF payload decoded before, or zeros when there was
\* none, and (offsets 28..43) the 16 value bytes of the NAV-VELECEF payload of
\* this step
SolutionSourcesStep ==
  \A k \in 1..Len(NewWrites) :
    NewWrites[k].by = "sol"
    => /\ VelDecodedStep
       /\ Slice(MsgPayload(NewWrites[k].msg), 12, 28)
            = (IF DecodedOf(1, 20) # {} THEN Slice(LastDecoded(1, 20), 4, 20)
               ELSE Filled(16, 0))
       /\ Slice(MsgPayload(NewWrites[k].msg), 28, 44) = Slice(NewFrame[3], 4, 20)

\* C12: in every synthesized solution ecefX, ecefY, ecefZ and pAcc are those of
\* the most recently decoded NAV-POSECEF record, or all zero when none was ever
\* decoded; ecefVX, ecefVY, ecefVZ and sAcc are those of the NAV-VELECEF record
\* that triggered the synthesis.
C12_SolutionSources == [][SolutionSourcesStep]_vars

\* reached: two different NAV-POSECEF frames were decoded, then a solution was
\* written with the position of the second
C12_Witness ==
  /\ Cardinality(DecodedOf(1, 20)) = 2
  /\ extracted[1][3] # extracted[2][3]
  /\ written # <<>>
  /\ written[Len(written)].by = "sol"
  /\ Slice(MsgPayload(written[Len(written)].msg), 12, 28) = Slice(extracted[2][3], 4, 20)

\* ----------------------------------------------------------------- C13
\* the frame found by this step has a recognized id and a payload shorter than
\* that id's minimum length
ShortFrameStep ==
  /\ FrameStep
  /\ NewFrame[1] = 1
  /\ \/ NewFrame[2] = 7 /\ Len(NewFrame[3]) < 92
     \/ NewFrame[2] \in {1, 17, 33} /\ Len(NewFrame[3]) < 20

\* what the decoder of the recognized id returns on the payload
DecoderResult(id, payload) ==
  CASE id = 7 -> parse_ubx_nav_pvt(payload)
    [] id = 1 -> parse_ubx_nav_posecef(payload)
    [] id = 17 -> parse_ubx_nav_velecef(payload)
    [] id = 33 -> parse_ubx_nav_timeutc(payload)

\* after the step the buffer holds exactly the bytes that followed the frame
ContinuesAfterFrame ==
  /\ pc' = "scan"
  /\ error' = error
  /\ Len(buffer') = Len(buffer) - (discarded' - discarded) - (Len(NewFrame[3]) + 8)
  /\ buffer' = SubSeq(buffer, Len(buffer) - Len(buffer') + 1, Len(buffer))

\* C13: a checksum-valid frame of id 0x07, 0x01, 0x11 or 0x21 whose payload is
\* shorter than 92, 20, 20, 20 bytes produces no record: the decoder returns
\* None, all four slots keep their values, no solution is synthesized, and the
\* driver continues with the bytes after the frame.
C13_ShortPayloadNoRecord ==
  [][ShortFrameStep
     => /\ DecoderResult(NewFrame[2], NewFrame[3]) = None
        /\ <<pvt', posecef', velecef', timeutc'>> = <<pvt, posecef, velecef, timeutc>>
        /\ \A k \in 1..Len(NewWrites) : NewWrites[k].by # "sol"
        /\ ContinuesAfterFrame]_vars

\* reached: a NAV-VELECEF frame was decoded, a 19-byte one followed and left
\* the slot as it was, and the frame after it was handled
C13_Witness ==
  /\ Len(extracted) = 3
  /\ extracted[1][2] = 17 /\ Len(extracted[1][3]) = 20
  /\ extracted[2][2] = 17 /\ Len(extracted[2][3]) = 19
  /\ velecef = parse_ubx_nav_velecef(extracted[1][3])
  /\ pvt = None
  /\ Len(written) = 2

\* ----------------------------------------------------------------- C14
\* C14: when the byte source or sink reports a fatal fault, read_messages hands
\* the fault on to its caller instead of returning normally.
C14_FaultPropagates == error = "SerialException" => pc = "raised"

\* ----------------------------------------------------------------- C15
\* the minimum payload length of a recognized id
MinLength(id) == IF id = 7 THEN 92 ELSE 20

\* the step found a frame of a recognized id with a payload long enough
DecodedStep ==
  /\ FrameStep
  /\ NewFrame[1] = 1
  /\ NewFrame[2] \in {7, 1, 17, 33}
  /\ Len(NewFrame[3]) >= MinLength(NewFrame[2])

\* the slot of frame type id, now and after the step
SlotOf(id) ==
  CASE id = 7 -> pvt [] id = 1 -> posecef [] id = 17 -> velecef [] id = 33 -> timeutc

NextSlotOf(id) ==
  CASE id = 7 -> pvt' [] id = 1 -> posecef' [] id = 17 -> velecef' [] id = 33 -> timeutc'

\* after a step that changes a slot or finds a frame, every slot is empty when
\* no frame of its id was decoded so far, and else holds the record of the last
\* such frame (the slots start empty with no frame found, and the other steps
\* change neither side)
SlotsHoldLastDecoded ==
  (<<pvt, posecef, velecef, timeutc, extracted>>' # <<pvt, posecef, velecef, timeutc, extracted>>)
  => \A id \in {7, 1, 17, 33} :
       NextSlotOf(id) = (IF DecodedOf(id, MinLength(id))' = {} THEN None
                         ELSE DecoderResult(id, LastDecoded(id, MinLength(id))'))

\* C15: each decoded frame overwrites exactly the slot of its own type and
\* leaves the other three unchanged; a slot always holds the most recently
\* decoded record of its type, whatever its iTOW, and is populated only if a
\* checksum-valid frame of that id with a long enough payload was received.
C15_SlotsOverwrittenByType ==
  [][/\ DecodedStep
        => /\ NextSlotOf(NewFrame[2]) = DecoderResult(NewFrame[2], NewFrame[3])
           /\ \A id \in {7, 1, 17, 33} \ {NewFrame[2]} : NextSlotOf(id) = SlotOf(id)
     /\ SlotsHoldLastDecoded]_vars

\* reached: a NAV-PVT frame with iTOW 0xFF000000 was decoded, then one with the
\* lower iTOW 10000, and the slot holds the second
C15_Witness ==
  /\ Len(extracted) = 2
  /\ extracted[1][2] = 7 /\ Slice(extracted[1][3], 0, 4) = <<0, 0, 0, 255>>
  /\ extracted[2][2] = 7 /\ Slice(extracted[2][3], 0, 4) = <<16, 39, 0, 0>>
  /\ pvt = parse_ubx_nav_pvt(extracted[2][3])
  /\ posecef = None /\ velecef = None /\ timeutc = None

\* ----------------------------------------------------------------- C16
\* the buffer starts with the sync marker and holds fewer than declared length
\* + 8 bytes, and the extraction loop is about to look at it
IncompleteAtHead ==
  /\ pc = "scan"
  /\ Len(buffer) >= 6
  /\ buffer[1] = 181 /\ buffer[2] = 98
  /\ Len(buffer) < DeclaredLength(buffer) + 8

\* the pass extracts, discards and writes nothing and goes back to ser.read
WaitsForMoreStep ==
  IncompleteAtHead
  => /\ buffer' = buffer
     /\ extracted' = extracted
     /\ discarded' = discarded
     /\ written' = written
     /\ <<pvt', posecef', velecef', timeutc'>> = <<pvt, posecef, velecef, timeutc>>
     /\ pc' = "read"

\* the source holds declared length + 8 bytes or more from the false marker on
EnoughToCome ==
  /\ scen.family = "stall"
  /\ Len(Stream(scen)) >= DeclaredLength(scen.garbage) + 8

\* the valid frame behind the false marker has been extracted
FrameBehindExtracted == \E k \in 1..Len(extracted) : extracted[k] = scen.frames[1]

\* C16 (source that keeps yielding): with the marker at the head and fewer than
\* declared length + 8 bytes buffered the driver extracts, discards and writes
\* nothing, even with complete valid frames later in the buffer, and waits for
\* the next read; when the source delivers declared length + 8 bytes from that
\* marker the valid frame behind the false marker is eventually extracted.
C16_WaitsThenResumes ==
  /\ [][WaitsForMoreStep]_vars
  /\ (EnoughToCome ~> FrameBehindExtracted)

\* reached: the driver waited behind a false header declaring 10 bytes with a
\* complete valid frame already buffered, and extracted that frame later
C16_Witness ==
  /\ scen.family = "stall"
  /\ DeclaredLength(scen.garbage) = 10
  /\ extracted = <<scen.frames[1], scen.frames[2]>>
  /\ discarded = 6
  /\ wire = <<>> /\ buffer = <<>>

\* ----------------------------------------------------------------- C17
\* the two running sums over s[1..n], in closed form: a = sum of the bytes,
\* b = sum of the n partial sums = sum of (n - k + 1) * s[k], both mod 256
RECURSIVE WeightedSum(_, _, _, _)
WeightedSum(s, k, n, w) ==
  IF k = 0 THEN 0 ELSE WeightedSum(s, k - 1, n, w) + (IF w THEN n - k + 1 ELSE 1) * s[k]

RunningSums(s) == <<WeightedSum(s, Len(s), Len(s), FALSE) % 256,
                    WeightedSum(s, Len(s), Len(s), TRUE) % 256>>

\* b is one complete frame of class 0x01
WellFormedNavFrame(b) ==
  /\ Len(b) >= 8
  /\ b[1] = 181 /\ b[2] = 98
  /\ b[3] = 1
  /\ b[5] + 256 * b[6] = Len(b) - 8
  /\ <<b[Len(b) - 1], b[Len(b)]>> = RunningSums(SubSeq(b, 3, Len(b) - 2))

\* C17: every write to the sink is one complete well-formed frame: marker
\* 0xB5 0x62, class 0x01, little-endian length equal to the number of payload
\* bytes, and the two running-sum checksum bytes over class, id, length and
\* payload; earlier writes are never altered.
C17_WritesAreNavFrames ==
  [][/\ Len(written') >= Len(written)
     /\ SubSeq(written', 1, Len(written)) = written
     /\ \A k \in 1..Len(NewWrites) : WellFormedNavFrame(NewWrites[k].msg)]_vars

\* reached: five frames were written, the last a 52-byte solution
C17_Witness ==
  /\ Len(written) = 5
  /\ written[5].by = "sol"
  /\ Len(written[5].msg) = 60
  /\ WellFormedNavFrame(written[5].msg)

\* ----------------------------------------------------------------- C18
\* C18: whenever the driver is back at ser.read the buffer is shorter than 6
\* bytes, or it begins with the sync marker and is shorter than its declared
\* length + 8; so no complete frame lies extractable at its head and, the
\* declared length being at most 65535, it holds at most 65542 bytes.
C18_RetainedBufferIsIncomplete ==
  pc = "read"
  => \/ Len(buffer) < 6
     \/ /\ buffer[1] = 181 /\ buffer[2] = 98
        /\ Len(buffer) < DeclaredLength(buffer) + 8
        /\ DeclaredLength(buffer) <= 65535
        /\ Len(buffer) <= 65542

\* reached: the driver is back at ser.read with garbage dropped and with six
\* bytes or more of an incomplete frame retained
C18_Witness ==
  /\ pc = "read"
  /\ discarded >= 1
  /\ Len(buffer) >= 6
  /\ buffer[1] = 181 /\ buffer[2] = 98

\* ----------------------------------------------------------------- C19
\* C19: a checksum-valid frame whose class is not 0x01 is consumed silently:
\* exactly its length + 8 bytes leave the buffer (after any bytes discarded in
\* front of it), nothing is written and no slot changes.
C19_ForeignClassConsumedSilently ==
  [][(FrameStep /\ NewFrame[1] # 1)
     => /\ written' = written
        /\ <<pvt', posecef', velecef', timeutc'>> = <<pvt, posecef, velecef, timeutc>>
        /\ ContinuesAfterFrame]_vars

\* reached: a frame of class 0x02 with the id and payload of a NAV-VELECEF
\* frame was consumed, leaving nothing written and the velocity slot empty
C19_Witness ==
  /\ Len(extracted) = 1
  /\ extracted[1][1] = 2 /\ extracted[1][2] = 17 /\ Len(extracted[1][3]) = 20
  /\ written = <<>>
  /\ velecef = None
  /\ buffer = <<>> /\ wire = <<>>
  /\ discarded = 0

\* ----------------------------------------------------------------- C20
\* the second of two runs whose inputs differ only in the payloads of the
\* NAV-TIMEUTC frames has taken in its whole input
RerunSettled == scen.family = "rerun" /\ Settled

\* C20: two runs whose input streams differ only in the payloads of NAV-TIMEUTC
\* frames (same lengths) write the same number of messages, and wherever either
\* wrote a frame of id 0x06 the other wrote the identical frame at the same
\* position.
C20_TimeUtcNeverInSolution ==
  RerunSettled
  => /\ Len(written) = 2 * scen.before
     /\ \A k \in 1..scen.before :
          (MsgId(written[k].msg) = 6 \/ MsgId(written[scen.before + k].msg) = 6)
          => written[k] = written[scen.before + k]

\* reached: both runs wrote four messages, the first of them the forwarded
\* NAV-TIMEUTC frames, which differ, the fourth the solutions, which are equal
C20_Witness ==
  /\ RerunSettled
  /\ scen.before = 4
  /\ Len(written) = 8
  /\ MsgId(written[1].msg) = 33 /\ written[1] # written[5]
  /\ timeutc # None
  /\ MsgId(written[4].msg) = 6 /\ written[4] = written[8]

====
